---- MODULE Spec2Model ----
(***************************************************************************)
(* Model of the three scripts of the repository:                           *)
(*   resnet/resnet_model.py      graph assembly of the CIFAR-10 ResNet v2  *)
(*   Alexnet/alexnet_test.py     the AlexNet inference driver              *)
(*   tensorboard/tensorboard_1.py  the MNIST training loop with summaries  *)
(* Tensors are modelled by their shapes (a sequence of dimensions laid out *)
(* in the tensor's data format); the framework's operators are modelled by *)
(* their documented shape arithmetic.                                      *)
(***************************************************************************)
EXTENDS Integers, Sequences, FiniteSets, TLC

VARIABLES
    \* ---- resnet_model.py ----
    rpc,          \* position in cifar10_resnet_v2_generator / model / block_layer
    resnet_size,  \* argument of the generator
    num_classes,  \* argument of the generator
    data_format,  \* argument of the generator ("None" when omitted)
    closure,      \* what the generator returned: the variables model() closes over
    inputs,       \* the tensor (shape) the running function currently holds
    trace,        \* the named steps model() has completed, in order
    stage,        \* which block_layer call of model() is running (0: none)
    frame,        \* the arguments of the running block_layer call
    k,            \* blocks built so far by the running block_layer call
    blockLog,     \* one record per residual block built by the running block_layer
    calls,        \* how many times the closure has been called
    \* ---- fixed_padding called directly ----
    ppc, pad_in, pad_kernel, pad_format, pad_list, pad_out,
    \* ---- alexnet_test.py ----
    apc, mode, folder, testImg, remaining, printed, error,
    \* ---- tensorboard_1.py ----
    tpc, i, batch, weights, written, trainLog

resnetVars == <<rpc, resnet_size, num_classes, data_format, closure, inputs,
                trace, stage, frame, k, blockLog, calls>>
padVars    == <<ppc, pad_in, pad_kernel, pad_format, pad_list, pad_out>>
alexVars   == <<apc, mode, folder, testImg, remaining, printed, error>>
tbVars     == <<tpc, i, batch, weights, written, trainLog>>
vars       == <<resnetVars, padVars, alexVars, tbVars>>

(***************************************************************************)
(* Bounds of the model.                                                    *)
(***************************************************************************)
MaxSize    == 20   \* resnet_size ranges over -MaxSize..MaxSize
MaxCalls   == 2    \* calls of the closure per run
MaxBatch   == 2    \* batch dimension of the tensors
MaxDim     == 4    \* height/width of a tensor handed to block_layer directly
MaxChan    == 2    \* channels of a tensor handed to block_layer directly
MaxFilters == 3    \* filters handed to block_layer directly
MaxBlocks  == 3    \* blocks handed to block_layer directly
MaxKernel  == 6    \* kernel_size handed to fixed_padding directly
MaxFiles   == 3    \* directory entries of the AlexNet folder

CeilDiv(a, b) == (a + b - 1) \div b

(***************************************************************************)
(* resnet_model.py: the layer functions, on shapes.                        *)
(***************************************************************************)
ChannelAxis(fmt) == IF fmt = "channels_first" THEN 2 ELSE 4

SpatialAxes(fmt) == IF fmt = "channels_first" THEN {3, 4} ELSE {2, 3}

\* batch normalization and ReLU are element-wise: the shape is kept, whichever
\* axis the code's comparison with 'channel_first' selects
batch_norm_relu(x, fmt) == x

\* tf.pad(inputs, paddings)
tf_pad(x, paddings) ==
    [d \in DOMAIN x |-> x[d] + paddings[d][1] + paddings[d][2]]

\* pad_beg rounded up instead of down
Paddings_roundup(kernel_size, fmt) ==
    LET pad_total == kernel_size - 1
        pad_beg   == (pad_total + 1) \div 2
        pad_end   == pad_total - pad_beg
    IN  IF fmt = "channels_first"
        THEN << <<0, 0>>, <<0, 0>>, <<pad_beg, pad_end>>, <<pad_beg, pad_end>> >>
        ELSE << <<0, 0>>, <<pad_beg, pad_end>>, <<pad_beg, pad_end>>, <<0, 0>> >>

\* the paddings list fixed_padding hands to tf.pad
Paddings(kernel_size, fmt) ==
    LET pad_total == kernel_size - 1
        pad_beg   == pad_total \div 2
        pad_end   == pad_total - pad_beg
    IN  IF fmt = "channels_first"
        THEN << <<0, 0>>, <<0, 0>>, <<pad_beg, pad_end>>, <<pad_beg, pad_end>> >>
        ELSE << <<0, 0>>, <<pad_beg, pad_end>>, <<pad_beg, pad_end>>, <<0, 0>> >>

fixed_padding(x, kernel_size, fmt) == tf_pad(x, Paddings(kernel_size, fmt))

\* output size of one spatial dimension of a convolution or pooling
\* (0 stands for the framework's negative-dimension error)
ConvOutSize(n, kernel_size, strides, padding) ==
    IF padding = "SAME" THEN CeilDiv(n, strides)
    ELSE IF n < kernel_size THEN 0
    ELSE (n - kernel_size) \div strides + 1

tf_layers_conv2d(x, filters, kernel_size, strides, padding, fmt) ==
    [d \in DOMAIN x |->
        IF d = ChannelAxis(fmt) THEN filters
        ELSE IF d \in SpatialAxes(fmt)
             THEN ConvOutSize(x[d], kernel_size, strides, padding)
             ELSE x[d]]

conv2d_fixed_padding(x, filters, kernel_size, strides, fmt) ==
    LET padded == IF strides > 1 THEN fixed_padding(x, kernel_size, fmt) ELSE x
    IN  tf_layers_conv2d(padded, filters, kernel_size, strides,
                         IF strides = 1 THEN "SAME" ELSE "VALID", fmt)

\* The closure projection_shortcut of block_layer, or None.
NoProjection == [isNone |-> TRUE, filters_out |-> 0, strides |-> 0]

projection_shortcut(ps, x, fmt) ==
    conv2d_fixed_padding(x, ps.filters_out, 1, ps.strides, fmt)

\* Both block functions return `inputs + shortcut`; the record keeps the two
\* operands of that addition.
building_block(x, filters, ps, strides, fmt) ==
    LET x1       == batch_norm_relu(x, fmt)
        shortcut == IF ps.isNone THEN x ELSE projection_shortcut(ps, x1, fmt)
        x2       == conv2d_fixed_padding(x1, filters, 3, strides, fmt)
        x3       == batch_norm_relu(x2, fmt)
        x4       == conv2d_fixed_padding(x3, filters, 3, 1, fmt)
    IN  [main |-> x4, shortcut |-> shortcut]

bottleneck_block(x, filters, ps, strides, fmt) ==
    LET x1       == batch_norm_relu(x, fmt)
        shortcut == IF ps.isNone THEN x ELSE projection_shortcut(ps, x1, fmt)
        x2       == conv2d_fixed_padding(x1, filters, 1, 1, fmt)
        x3       == batch_norm_relu(x2, fmt)
        x4       == conv2d_fixed_padding(x3, filters, 3, strides, fmt)
        x5       == batch_norm_relu(x4, fmt)
        x6       == conv2d_fixed_padding(x5, 4 * filters, 1, 1, fmt)
    IN  [main |-> x6, shortcut |-> shortcut]

block_fn_apply(fn, x, filters, ps, strides, fmt) ==
    IF fn = "bottleneck_block"
    THEN bottleneck_block(x, filters, ps, strides, fmt)
    ELSE building_block(x, filters, ps, strides, fmt)

\* a + b with the framework's broadcasting (0: incompatible dimensions)
tf_add(a, b) ==
    [d \in DOMAIN a |->
        IF a[d] = b[d] THEN a[d]
        ELSE IF a[d] = 1 THEN b[d]
        ELSE IF b[d] = 1 THEN a[d]
        ELSE 0]

(***************************************************************************)
(* resnet_model.py: cifar10_resnet_v2_generator, model and block_layer.    *)
(***************************************************************************)
NoFrame == [filters |-> 0, block_fn |-> "", blocks |-> 0, strides |-> 0,
            name |-> "", fmt |-> ""]

NoClosure == [num_blocks |-> 0, data_format |-> "", num_classes |-> 0,
              returned |-> FALSE]

\* CIFAR-10 inputs as model() receives them: [batch, height, width, channels]
ImageShapes == {<<b, 32, 32, 3>> : b \in 1..MaxBatch}

Step(op, name, size, strides) ==
    [op |-> op, name |-> name, size |-> size, strides |-> strides]

Accepts_mod3(size) == size % 3 = 2

\* the guard of the generator: resnet_size % 6 != 2 raises ValueError
Accepts(size) == size % 6 = 2

\* cifar10_resnet_v2_generator(resnet_size, num_classes, data_format)
Generator ==
    /\ rpc = "start"
    /\ IF ~Accepts(resnet_size)
       THEN /\ rpc' = "ValueError"
            /\ closure' = closure
       ELSE \E cuda \in BOOLEAN :
            /\ rpc' = "closure"
            /\ closure' = [num_blocks  |-> (resnet_size - 2) \div 6,
                           data_format |->
                               IF data_format = "None"
                               THEN (IF cuda THEN "channels_first"
                                             ELSE "channels_last")
                               ELSE data_format,
                           num_classes |-> num_classes,
                           returned    |-> TRUE]
    /\ UNCHANGED <<resnet_size, num_classes, data_format, inputs, trace, stage,
                   frame, k, blockLog, calls>>
    /\ UNCHANGED <<padVars, alexVars, tbVars>>

\* tf.transpose(inputs, [0, 3, 1, 2])
tf_transpose_0312(x) == <<x[1], x[4], x[2], x[3]>>

\* model(inputs, is_training): the transpose, the initial convolution and
\* tf.identity(inputs, 'initial_conv')
ModelBegin ==
    /\ rpc \in {"closure", "returned"}
    /\ calls < MaxCalls
    /\ \E img \in ImageShapes :
        LET fmt == closure.data_format
            x0  == IF fmt = "channels_first" THEN tf_transpose_0312(img) ELSE img
        IN  inputs' = conv2d_fixed_padding(x0, 16, 3, 1, fmt)
    /\ trace' = <<Step("conv2d", "initial_conv", 16, 1)>>
    /\ calls' = calls + 1
    /\ stage' = 1
    /\ rpc' = "model_stage"
    /\ blockLog' = <<>>
    /\ UNCHANGED <<resnet_size, num_classes, data_format, closure, frame, k>>
    /\ UNCHANGED <<padVars, alexVars, tbVars>>

StageFilters_rev(s) == IF s = 1 THEN 64 ELSE IF s = 2 THEN 32 ELSE 16

StageFilters(s) == IF s = 1 THEN 16 ELSE IF s = 2 THEN 32 ELSE 64

StageStrides(s) == IF s = 1 THEN 1 ELSE 2

StageName(s) ==
    IF s = 1 THEN "block_layer1" ELSE IF s = 2 THEN "block_layer2"
    ELSE "block_layer3"

\* model(): the call of block_layer for stage 1, 2 or 3
ModelCallBlockLayer ==
    /\ rpc = "model_stage"
    /\ frame' = [filters  |-> StageFilters(stage),
                 block_fn |-> "building_block",
                 blocks   |-> closure.num_blocks,
                 strides  |-> StageStrides(stage),
                 name     |-> StageName(stage),
                 fmt      |-> closure.data_format]
    /\ rpc' = "bl_first"
    /\ UNCHANGED <<resnet_size, num_classes, data_format, closure, inputs,
                   trace, stage, k, blockLog, calls>>
    /\ UNCHANGED <<padVars, alexVars, tbVars>>

FiltersOut_same(f) == f.filters

\* filters_out of block_layer
FiltersOut(f) ==
    IF f.block_fn = "bottleneck_block" THEN 4 * f.filters ELSE f.filters

BlockRecord(x, ps, strides, r) ==
    [input |-> x, projection |-> ~ps.isNone, strides |-> strides,
     main |-> r.main, shortcut |-> r.shortcut]

\* block_layer: the first block, with projection_shortcut and strides
BlockLayerFirst ==
    /\ rpc = "bl_first"
    /\ LET ps == [isNone |-> FALSE, filters_out |-> FiltersOut(frame),
                  strides |-> frame.strides]
           r  == block_fn_apply(frame.block_fn, inputs, frame.filters, ps,
                                frame.strides, frame.fmt)
       IN  /\ inputs' = tf_add(r.main, r.shortcut)
           /\ blockLog' = <<BlockRecord(inputs, ps, frame.strides, r)>>
    /\ k' = 1
    /\ rpc' = "bl_loop"
    /\ UNCHANGED <<resnet_size, num_classes, data_format, closure, trace,
                   stage, frame, calls>>
    /\ UNCHANGED <<padVars, alexVars, tbVars>>

\* block_layer: one iteration of `for _ in range(1, blocks)`
BlockLayerLoop ==
    /\ rpc = "bl_loop"
    /\ k < frame.blocks
    /\ LET r == block_fn_apply(frame.block_fn, inputs, frame.filters,
                               NoProjection, 1, frame.fmt)
       IN  /\ inputs' = tf_add(r.main, r.shortcut)
           /\ blockLog' = Append(blockLog, BlockRecord(inputs, NoProjection, 1, r))
    /\ k' = k + 1
    /\ UNCHANGED <<rpc, resnet_size, num_classes, data_format, closure, trace,
                   stage, frame, calls>>
    /\ UNCHANGED <<padVars, alexVars, tbVars>>

\* block_layer: the loop is over; return tf.identity(inputs, name)
BlockLayerReturn ==
    /\ rpc = "bl_loop"
    /\ k >= frame.blocks
    /\ trace' = Append(trace, Step("block_layer", frame.name, frame.filters,
                                   frame.strides))
    /\ rpc' = "bl_returned"
    /\ UNCHANGED <<resnet_size, num_classes, data_format, closure, inputs,
                   stage, frame, k, blockLog, calls>>
    /\ UNCHANGED <<padVars, alexVars, tbVars>>

\* model(): back from block_layer; the next stage, or on to the final layers
ModelAfterBlockLayer ==
    /\ rpc = "bl_returned"
    /\ stage \in 1..3
    /\ IF stage < 3
       THEN /\ stage' = stage + 1
            /\ rpc' = "model_stage"
       ELSE /\ stage' = 0
            /\ rpc' = "model_bn"
    /\ UNCHANGED <<resnet_size, num_classes, data_format, closure, inputs,
                   trace, frame, k, blockLog, calls>>
    /\ UNCHANGED <<padVars, alexVars, tbVars>>

\* model(): batch_norm_relu after the last stage
ModelBnRelu ==
    /\ rpc = "model_bn"
    /\ inputs' = batch_norm_relu(inputs, closure.data_format)
    /\ trace' = Append(trace, Step("batch_norm_relu", "", 0, 0))
    /\ rpc' = "model_pool"
    /\ UNCHANGED <<resnet_size, num_classes, data_format, closure, stage,
                   frame, k, blockLog, calls>>
    /\ UNCHANGED <<padVars, alexVars, tbVars>>

\* tf.layers.average_pooling2d(pool_size=8, strides=1, padding='VALID')
tf_average_pooling2d(x, pool_size, strides, fmt) ==
    [d \in DOMAIN x |->
        IF d \in SpatialAxes(fmt)
        THEN ConvOutSize(x[d], pool_size, strides, "VALID")
        ELSE x[d]]

\* model(): average pooling and tf.identity(inputs, 'final_avg_pool')
ModelAvgPool ==
    /\ rpc = "model_pool"
    /\ inputs' = tf_average_pooling2d(inputs, 8, 1, closure.data_format)
    /\ trace' = Append(trace, Step("average_pooling2d", "final_avg_pool", 8, 1))
    /\ rpc' = "model_dense"
    /\ UNCHANGED <<resnet_size, num_classes, data_format, closure, stage,
                   frame, k, blockLog, calls>>
    /\ UNCHANGED <<padVars, alexVars, tbVars>>

\* tf.reshape(inputs, [-1, 64])
tf_reshape_rows(x, cols) == <<(x[1] * x[2] * x[3] * x[4]) \div cols, cols>>

\* model(): reshape, the dense layer, tf.identity(inputs, 'final_dense'), return
ModelDense ==
    /\ rpc = "model_dense"
    /\ inputs' = <<tf_reshape_rows(inputs, 64)[1], closure.num_classes>>
    /\ trace' = Append(trace, Step("dense", "final_dense",
                                   closure.num_classes, 0))
    /\ rpc' = "returned"
    /\ UNCHANGED <<resnet_size, num_classes, data_format, closure, stage,
                   frame, k, blockLog, calls>>
    /\ UNCHANGED <<padVars, alexVars, tbVars>>

\* the module-level name testImg before any assignment binds it
Unbound == [bound |-> FALSE, items |-> <<>>]

(***************************************************************************)
(* Idle values of each script's variables while another script runs.       *)
(***************************************************************************)
ResnetIdle ==
    /\ rpc = "idle" /\ resnet_size = 0 /\ num_classes = 0 /\ data_format = "None"
    /\ closure = NoClosure /\ inputs = <<>> /\ trace = <<>> /\ stage = 0
    /\ frame = NoFrame /\ k = 0 /\ blockLog = <<>> /\ calls = 0

PadIdle ==
    /\ ppc = "idle" /\ pad_in = <<>> /\ pad_kernel = 0 /\ pad_format = ""
    /\ pad_list = <<>> /\ pad_out = <<>>

AlexIdle ==
    /\ apc = "idle" /\ mode = "" /\ folder = <<>> /\ testImg = Unbound
    /\ remaining = {} /\ printed = <<>> /\ error = ""

TbIdle ==
    /\ tpc = "idle" /\ i = 0 /\ batch = 0 /\ weights = 0 /\ written = <<>>
    /\ trainLog = <<>>

(***************************************************************************)
(* The generator and the closure it returns.                               *)
(***************************************************************************)
InitResnet ==
    /\ rpc = "start"
    /\ resnet_size \in (0 - MaxSize)..MaxSize
    /\ num_classes \in {10, 100}
    /\ data_format \in {"None", "channels_first", "channels_last"}
    /\ closure = NoClosure /\ inputs = <<>> /\ trace = <<>> /\ stage = 0
    /\ frame = NoFrame /\ k = 0 /\ blockLog = <<>> /\ calls = 0
    /\ PadIdle /\ AlexIdle /\ TbIdle

NextResnet ==
    \/ Generator
    \/ ModelBegin
    \/ ModelCallBlockLayer
    \/ BlockLayerFirst
    \/ BlockLayerLoop
    \/ BlockLayerReturn
    \/ ModelAfterBlockLayer
    \/ ModelBnRelu
    \/ ModelAvgPool
    \/ ModelDense

SpecResnet == InitResnet /\ [][NextResnet]_vars

(***************************************************************************)
(* block_layer called directly, with either block function.                *)
(***************************************************************************)
Formats == {"channels_first", "channels_last"}

\* a tensor of n x c x h x w elements laid out in data format fmt
Tensor(n, c, h, w, fmt) ==
    IF fmt = "channels_first" THEN <<n, c, h, w>> ELSE <<n, h, w, c>>

InitBlockLayer ==
    /\ rpc = "bl_first"
    /\ \E fmt \in Formats :
        /\ frame \in [filters  : 1..MaxFilters,
                      block_fn : {"building_block", "bottleneck_block"},
                      blocks   : 0..MaxBlocks,
                      strides  : {1, 2},
                      name     : {"layer"},
                      fmt      : {fmt}]
        /\ inputs \in {Tensor(n, c, h, w, fmt) :
                          n \in 1..MaxBatch, c \in 1..MaxChan,
                          h \in 1..MaxDim, w \in 1..MaxDim}
    /\ resnet_size = 0 /\ num_classes = 0 /\ data_format = "None"
    /\ closure = NoClosure /\ trace = <<>> /\ stage = 0
    /\ k = 0 /\ blockLog = <<>> /\ calls = 0
    /\ PadIdle /\ AlexIdle /\ TbIdle

NextBlockLayer == BlockLayerFirst \/ BlockLayerLoop \/ BlockLayerReturn

SpecBlockLayer == InitBlockLayer /\ [][NextBlockLayer]_vars

(***************************************************************************)
(* fixed_padding called directly.                                          *)
(***************************************************************************)
InitPad ==
    /\ ppc = "call"
    /\ pad_format \in Formats
    /\ pad_kernel \in 1..MaxKernel
    /\ pad_in \in {Tensor(n, c, h, w, pad_format) :
                      n \in 1..MaxBatch, c \in 1..MaxChan,
                      h \in 1..MaxDim, w \in 1..MaxDim}
    /\ pad_list = <<>> /\ pad_out = <<>>
    /\ ResnetIdle /\ AlexIdle /\ TbIdle

\* fixed_padding(inputs, kernel_size, data_format)
FixedPaddingCall ==
    /\ ppc = "call"
    /\ pad_list' = Paddings(pad_kernel, pad_format)
    /\ pad_out' = fixed_padding(pad_in, pad_kernel, pad_format)
    /\ ppc' = "returned"
    /\ UNCHANGED <<pad_in, pad_kernel, pad_format>>
    /\ UNCHANGED <<resnetVars, alexVars, tbVars>>

NextPad == FixedPaddingCall

SpecPad == InitPad /\ [][NextPad]_vars

(***************************************************************************)
(* Properties of the generator, the closure and block_layer.               *)
(***************************************************************************)

\* C1: once the generator has run, resnet_size % 6 /= 2 means it raised
\* ValueError, returned no closure and created no layer; resnet_size % 6 = 2
\* means it raised nothing and returned the closure.
C1_ValueErrorIffNotSixNPlusTwo ==
    rpc # "start" =>
        /\ resnet_size % 6 # 2 =>
              /\ rpc = "ValueError"
              /\ ~closure.returned
              /\ trace = <<>> /\ blockLog = <<>> /\ inputs = <<>> /\ calls = 0
        /\ resnet_size % 6 = 2 =>
              /\ rpc # "ValueError"
              /\ closure.returned

C1_Witness ==
    /\ rpc = "ValueError" /\ resnet_size = 0 - 3 /\ ~closure.returned

ExpectedTrace(units) ==
    << Step("conv2d", "initial_conv", 16, 1),
       Step("block_layer", "block_layer1", 16, 1),
       Step("block_layer", "block_layer2", 32, 2),
       Step("block_layer", "block_layer3", 64, 2),
       Step("batch_norm_relu", "", 0, 0),
       Step("average_pooling2d", "final_avg_pool", 8, 1),
       Step("dense", "final_dense", units, 0) >>

\* the number of named steps completed when model() stands at rpc
StepsDoneAt(pc, st) ==
    CASE pc \in {"model_stage", "bl_first", "bl_loop"} -> st
      [] pc = "bl_returned" -> st + 1
      [] pc = "model_bn"    -> 4
      [] pc = "model_pool"  -> 5
      [] pc = "model_dense" -> 6
      [] pc = "returned"    -> 7
      [] OTHER              -> 0

\* C2: in every call of the closure the completed steps are, at every moment,
\* an initial part of initial_conv, block_layer1 (16, stride 1), block_layer2
\* (32, stride 2), block_layer3 (64, stride 2), batch-norm+ReLU,
\* final_avg_pool, final_dense (num_classes units), of the length the position
\* in model() gives, and the whole list when the call returns.
C2_FixedAssemblyOrder ==
    calls >= 1 =>
        /\ Len(trace) = StepsDoneAt(rpc, stage)
        /\ trace = SubSeq(ExpectedTrace(num_classes), 1, Len(trace))
        /\ rpc = "returned" => trace = ExpectedTrace(num_classes)

C2_Witness ==
    /\ rpc = "returned" /\ calls = 2 /\ Len(trace) = 7
    /\ trace[4].name = "block_layer3" /\ inputs = <<1, num_classes>>

\* C6: when a stage of model() is complete it holds exactly
\* (resnet_size - 2) // 6 blocks, the first with the projection shortcut and
\* the stage's stride, every later one without projection and with stride 1.
C6_StageHoldsNumBlocksBlocks ==
    (rpc = "bl_returned" /\ stage \in 1..3) =>
        /\ Len(blockLog) = (resnet_size - 2) \div 6
        /\ \A j \in 1..Len(blockLog) :
              IF j = 1
              THEN blockLog[j].projection
                   /\ blockLog[j].strides = StageStrides(stage)
              ELSE ~blockLog[j].projection /\ blockLog[j].strides = 1

\* C8: in every block built by block_layer the two operands of the final
\* addition have the same shape; in the first block that shape has
\* filters_out channels and ceil(in / strides) rows and columns, in every
\* later block it is the shape of the block's input.
C8_AddOperandsSameShape ==
    \A j \in 1..Len(blockLog) :
        LET b   == blockLog[j]
            out == IF frame.block_fn = "bottleneck_block"
                   THEN 4 * frame.filters ELSE frame.filters
            ch  == IF frame.fmt = "channels_first" THEN 2 ELSE 4
        IN  /\ b.main = b.shortcut
            /\ IF j = 1
               THEN \A d \in 1..4 :
                       b.shortcut[d] =
                           IF d = 1 THEN b.input[1]
                           ELSE IF d = ch THEN out
                           ELSE (b.input[d] + frame.strides - 1) \div frame.strides
               ELSE b.main = b.input

C8_Witness ==
    /\ rpc = "bl_returned" /\ Len(blockLog) = 3
    /\ frame.block_fn = "bottleneck_block" /\ frame.strides = 2
    /\ frame.filters = 2 /\ frame.fmt = "channels_first"
    /\ blockLog[1].input = <<1, 1, 3, 4>>
    /\ blockLog[1].shortcut = <<1, 8, 2, 2>>
    /\ blockLog[3].main = <<1, 8, 2, 2>>

\* C7: fixed_padding pads each spatial dimension by pad_beg before and pad_end
\* after, pad_beg + pad_end = kernel_size - 1 and
\* 0 <= pad_beg <= pad_end <= pad_beg + 1; the batch and channel dimensions
\* get no padding; kernel_size 1 returns the input's shape, a larger kernel
\* a larger one.
C7_FixedPaddingAmounts ==
    ppc = "returned" =>
        LET spatial == IF pad_format = "channels_first" THEN {3, 4} ELSE {2, 3}
        IN  /\ \A d \in 1..4 :
                  LET pad_beg == pad_list[d][1]
                      pad_end == pad_list[d][2]
                  IN  IF d \in spatial
                      THEN /\ pad_beg + pad_end = pad_kernel - 1
                           /\ 0 <= pad_beg /\ pad_beg <= pad_end
                           /\ pad_end <= pad_beg + 1
                           /\ pad_out[d] = pad_in[d] + pad_kernel - 1
                      ELSE /\ pad_list[d] = <<0, 0>>
                           /\ pad_out[d] = pad_in[d]
            /\ pad_kernel = 1 => pad_out = pad_in
            /\ pad_kernel > 1 => pad_out # pad_in

C7_Witness ==
    /\ ppc = "returned" /\ pad_kernel = 4 /\ pad_format = "channels_first"
    /\ pad_list = << <<0, 0>>, <<0, 0>>, <<1, 2>>, <<1, 2>> >>
    /\ pad_in = <<2, 1, 3, 4>> /\ pad_out = <<2, 1, 6, 7>>

(***************************************************************************)
(* alexnet_test.py.  The folder is a listing: entry f is absent, a         *)
(* directory, a file cv2.imread decodes, or a file it does not (imread     *)
(* then returns None).                                                     *)
(***************************************************************************)
EntryKinds == {"absent", "dir", "image", "notimage"}

\* caffe_classes.class_names, cut to two labels
ClassNames == {"tabby", "beagle"}

\* os.listdir(args.path)
ListDir(fd) == {f \in DOMAIN fd : fd[f] # "absent"}

IsFile_any(fd, f) == TRUE

\* os.path.isfile(withPath(f))
IsFile(fd, f) == fd[f] \in {"image", "notimage"}

\* the two lines print("{}: {}\n --- ".format(key, res)) writes
PrintLines(key, res) ==
    << [kind |-> "classification", key |-> key, res |-> res],
       [kind |-> "separator", key |-> 0, res |-> " --- "] >>

\* cv2.imread(withPath(f)): the image, or None
imread(fd, f) == [decoded |-> fd[f] = "image", file |-> f]

InitAlex ==
    /\ apc = "start"
    /\ mode \in {"folder", "url"}
    /\ folder \in [1..MaxFiles -> EntryKinds]
    /\ testImg = Unbound /\ remaining = {} /\ printed = <<>> /\ error = ""
    /\ ResnetIdle /\ PadIdle /\ TbIdle

\* mode 'folder': testImg = dict of the folder's regular files
LoadFolder ==
    /\ apc = "start"
    /\ mode = "folder"
    /\ testImg' = [bound |-> TRUE,
                   items |-> [f \in {g \in ListDir(folder) : IsFile(folder, g)}
                                 |-> imread(folder, f)]]
    /\ apc' = "check"
    /\ UNCHANGED <<mode, folder, remaining, printed, error>>
    /\ UNCHANGED <<resnetVars, padVars, tbVars>>

\* mode 'url': the branch only defines url2img; nothing calls it and nothing
\* binds testImg
DefineUrl2Img ==
    /\ apc = "start"
    /\ mode = "url"
    /\ apc' = "check"
    /\ UNCHANGED <<mode, folder, testImg, remaining, printed, error>>
    /\ UNCHANGED <<resnetVars, padVars, tbVars>>

\* `if testImg.values():` and, when true, the graph and session set-up
CheckTestImg ==
    /\ apc = "check"
    /\ IF ~testImg.bound
       THEN /\ apc' = "crashed"
            /\ error' = "NameError"
            /\ remaining' = remaining
       ELSE IF DOMAIN testImg.items = {}
       THEN /\ apc' = "done"
            /\ UNCHANGED <<error, remaining>>
       ELSE /\ apc' = "loop"
            /\ remaining' = DOMAIN testImg.items
            /\ error' = error
    /\ UNCHANGED <<mode, folder, testImg, printed>>
    /\ UNCHANGED <<resnetVars, padVars, tbVars>>

\* one iteration of `for key, img in testImg.items()`; the dictionary's order
\* is the listing's, which the file system decides
ClassifyOne ==
    /\ apc = "loop"
    /\ \E key \in remaining :
        IF ~testImg.items[key].decoded
        THEN /\ apc' = "crashed"
             /\ error' = "AttributeError"
             /\ UNCHANGED <<remaining, printed>>
        ELSE \E res \in ClassNames :
             /\ printed' = printed \o PrintLines(key, res)
             /\ remaining' = remaining \ {key}
             /\ UNCHANGED <<apc, error>>
    /\ UNCHANGED <<mode, folder, testImg>>
    /\ UNCHANGED <<resnetVars, padVars, tbVars>>

\* the loop is exhausted and the script ends
LoopEnd ==
    /\ apc = "loop"
    /\ remaining = {}
    /\ apc' = "done"
    /\ UNCHANGED <<mode, folder, testImg, remaining, printed, error>>
    /\ UNCHANGED <<resnetVars, padVars, tbVars>>

NextAlex ==
    \/ LoadFolder
    \/ DefineUrl2Img
    \/ CheckTestImg
    \/ ClassifyOne
    \/ LoopEnd

SpecAlex == InitAlex /\ [][NextAlex]_vars

\* the positions of the classification lines in the output
ClassificationLines == {j \in 1..Len(printed) : printed[j].kind = "classification"}

\* C3: in mode 'folder', when every regular file of the folder decodes, the
\* script does not fail, and when it ends it has printed exactly one
\* classification line per regular file, none for a directory, each naming
\* its file and a class label and followed by the separator line of the same
\* print call; the classification lines are as many as the images loaded.
C3_OneLinePerRegularFile ==
    (mode = "folder" /\ \A f \in DOMAIN folder : folder[f] # "notimage") =>
        /\ apc # "crashed"
        /\ apc = "done" =>
              LET files == {f \in DOMAIN folder : folder[f] = "image"}
              IN  /\ Cardinality(ClassificationLines) = Cardinality(files)
                  /\ Cardinality(ClassificationLines)
                         = Cardinality(DOMAIN testImg.items)
                  /\ \A f \in files :
                        Cardinality({j \in ClassificationLines :
                                        printed[j].key = f}) = 1
                  /\ \A j \in ClassificationLines :
                        /\ printed[j].key \in files
                        /\ printed[j].res \in ClassNames
                        /\ j < Len(printed)
                        /\ printed[j + 1].kind = "separator"
                  /\ Len(printed) = 2 * Cardinality(files)

C3_Witness ==
    /\ apc = "done" /\ mode = "folder"
    /\ folder = <<"image", "dir", "image">>
    /\ Len(printed) = 4
    /\ printed[1] = [kind |-> "classification", key |-> 3, res |-> "tabby"]
    /\ printed[3] = [kind |-> "classification", key |-> 1, res |-> "beagle"]

\* C4: a run in mode 'url' does not fail before the classification loop, and
\* when it ends it has printed the classification line of the image at the URL.
C4_UrlModeClassifies ==
    mode = "url" =>
        /\ apc # "crashed"
        /\ apc = "done" => Cardinality(ClassificationLines) = 1

(***************************************************************************)
(* tensorboard_1.py: the training loop of mnist_model.  weights counts the *)
(* training steps applied to the variables; batch numbers the batches      *)
(* next_batch has handed out.                                              *)
(***************************************************************************)
NumSteps == 501

InitTB ==
    /\ tpc = "loop" /\ i = 0 /\ batch = 0 /\ weights = 0
    /\ written = <<>> /\ trainLog = <<>>
    /\ ResnetIdle /\ PadIdle /\ AlexIdle

\* `for i in range(501)`: the next i, and batch = mnist.train.next_batch(100)
NextBatch ==
    /\ tpc = "loop"
    /\ i < NumSteps
    /\ batch' = batch + 1
    /\ tpc' = "summary"
    /\ UNCHANGED <<i, weights, written, trainLog>>
    /\ UNCHANGED <<resnetVars, padVars, alexVars>>

SummaryEvent_afterTraining(step, w, b) ==
    [step |-> step, weights |-> w + 1, batch |-> b]

\* what sess.run([accuracy, summ]) evaluates and writer.add_summary(s, i) writes
SummaryEvent(step, w, b) == [step |-> step, weights |-> w, batch |-> b]

\* sess.run([accuracy, summ], ...) and writer.add_summary(s, i)
WriteSummary ==
    /\ tpc = "summary"
    /\ written' = Append(written, SummaryEvent(i, weights, batch))
    /\ tpc' = "train"
    /\ UNCHANGED <<i, batch, weights, trainLog>>
    /\ UNCHANGED <<resnetVars, padVars, alexVars>>

\* sess.run(train_step, ...) on the same batch; the iteration ends
TrainStep ==
    /\ tpc = "train"
    /\ weights' = weights + 1
    /\ trainLog' = Append(trainLog, batch)
    /\ i' = i + 1
    /\ tpc' = "loop"
    /\ UNCHANGED <<batch, written>>
    /\ UNCHANGED <<resnetVars, padVars, alexVars>>

\* range(501) is exhausted: mnist_model returns
LoopExit ==
    /\ tpc = "loop"
    /\ i >= NumSteps
    /\ tpc' = "done"
    /\ UNCHANGED <<i, batch, weights, written, trainLog>>
    /\ UNCHANGED <<resnetVars, padVars, alexVars>>

NextTB == NextBatch \/ WriteSummary \/ TrainStep \/ LoopExit

SpecTB == InitTB /\ [][NextTB]_vars

\* C5: the loop runs iterations i = 0..500 and then stops; in iteration i the
\* summary is written with step i before the training step, on the batch the
\* training step then uses; the written steps are 0, 1, 2, ... one per
\* iteration, and the summary of step i shows the weights after i training
\* steps; at the end 501 summaries are written and 501 steps applied.
C5_SummaryBeforeTraining ==
    /\ i \in 0..501
    /\ weights = i /\ Len(trainLog) = i
    /\ Len(written) = (IF tpc = "train" THEN i + 1 ELSE i)
    /\ \A j \in 1..Len(written) :
          /\ written[j].step = j - 1
          /\ written[j].weights = j - 1
          /\ j <= Len(trainLog) => trainLog[j] = written[j].batch
    /\ tpc = "train" => written[i + 1].batch = batch
    /\ tpc # "done" => ENABLED NextTB
    /\ tpc = "done" =>
          /\ i = 501 /\ Len(written) = 501 /\ weights = 501
          /\ written[501].step = 500

C5_Witness ==
    /\ tpc = "done" /\ Len(written) = 501 /\ weights = 501
    /\ written[501] = [step |-> 500, weights |-> 500, batch |-> 501]

====
